---------------------------- MODULE Spec2Model ----------------------------
(***************************************************************************)
(* A model of the request-dispatch core of solana_analytics.               *)
(*                                                                         *)
(*   Spec       the dispatcher of src/rpc/mod.rs (get_slot and friends,    *)
(*              make_request) over the health registry of                  *)
(*              src/core/health.rs                                         *)
(*   FairSpec   Spec with the fairness the tokio runtime gives a task      *)
(*   SpecRetry  the retry loop with_retry of src/rpc/client.rs             *)
(*   SpecLimiter  the rate limiter of src/rpc/rate_limit.rs, called by     *)
(*              several tasks                                              *)
(*   SpecMonitor  a health monitor (src/core/health.rs or                  *)
(*              src/rpc/health.rs) called directly by several tasks,       *)
(*              with its RwLock                                            *)
(*   SpecBuild  the constructors (src/rpc/rate_limit.rs,                   *)
(*              src/rpc/client.rs, src/rpc/mod.rs) and                     *)
(*              RpcError::is_retryable on drawn inputs                     *)
(*   FairSpecLocks  the monitor of src/rpc/health.rs with its two locks,   *)
(*              the tasks being served fairly                              *)
(*   SpecFetcher  the TransactionFetcher of                                *)
(*              src/fetcher/transaction_fetcher.rs, called again and again *)
(*                                                                         *)
(* Time is abstract.  core/health.rs reads the clock in one place only     *)
(* (health_score: "no success in the last minute"), so a success is        *)
(* either "fresh" (at most 60 s old) or "stale"; TimePasses lets more      *)
(* than 60 s elapse.                                                       *)
(***************************************************************************)
EXTENDS Integers, Sequences, FiniteSets, TLC

(***************************************************************************)
(* Bounds of the model.                                                    *)
(***************************************************************************)
\* configurations have 1..NumEndpoints endpoints
NumEndpoints == 2
\* config.max_retries of the configurations explored
MaxRetries == 1
\* outcomes the health registry records in a run, over all endpoints (its
\* counters are u64 in the code)
MaxRecords == 3
\* the ghost counter of attempts per endpoint saturates here
AttCap == 2
\* config.requests_per_second: the burst of the dispatcher's rate limiter
Rps == 1
\* config.retry_attempts ranges over 0..MaxRetryAttempts
MaxRetryAttempts == 4
\* config.rate_limit.burst_size of the client of rpc/client.rs
Burst == 1
\* RateLimitConfig.max_rps ranges over 1..MaxRps
MaxRps == 2
\* RateLimitConfig.burst_size ranges over 1..MaxBurst
MaxBurst == 2
\* record_* calls made on a health monitor in a run of SpecMonitor
MaxMonRecords == 4

\* the node has NumSigs signatures of the address
NumSigs == 4
\* TransactionFetcher.batch_size ranges over 1..BatchSize
BatchSize == 2

(***************************************************************************)
(* Program constants.                                                      *)
(***************************************************************************)
\* EndpointHealth::should_retry: "error count is below threshold"
ErrorThreshold == 3
\* RpcConfig::default of rpc/client.rs: retry_delay_ms
retry_delay_ms == 1000
\* RateLimiter::new: Quota::with_period(Duration::from_secs(1)), in ms
QuotaPeriodMs == 1000
\* RpcConfig::default of config/mod.rs: max_delay, in ms
max_delay_ms == 10000
\* make_request: the "id" of the JSON-RPC body, a literal
JsonRpcId == 1

\* The tasks that call one client concurrently (rpc/tests.rs,
\* test_rate_limiting, spawns several on clones of one client).
Callers == {1, 2}

\* the ghost counter of attempts per call saturates here
SentCap == MaxRetries + 1

\* start.elapsed() at the time of a success, in ms
RespTimes == {9}

(***************************************************************************)
(* What one HTTP attempt can come back with (req.send() and the status     *)
(* check of the retried closure, then the decoding of the body).           *)
(*   ok        2xx and a body that decodes                                 *)
(*   bad_body  2xx and a body that does not decode                         *)
(*   s500      HTTP 500          s400   HTTP 400                           *)
(*   send_err  send() returned Err: no connection, or the per-attempt       *)
(*             timeout elapsed                                             *)
(***************************************************************************)
Outcomes == {"ok", "bad_body", "s500", "s400", "send_err"}
Is2xx(o) == o \in {"ok", "bad_body"}

VARIABLES
    \* ---- src/rpc/mod.rs + src/core/health.rs ----
    nEndpoints,    \* config.endpoints.len()
    health,        \* HealthMonitor.endpoints: index -> EndpointHealth
    tokens,        \* cells available in SolanaRpcClient.rate_limiter
    pc,            \* where each caller is in get_slot / make_request
    ep,            \* the endpoint get_healthiest_endpoint gave the call (0: none)
    result,        \* what the call returned
    \* ghosts of the dispatcher
    sent,          \* HTTP requests sent by the current call (saturates at SentCap)
    last,          \* outcome of the call's latest attempt
    tried,         \* endpoints an attempt of the current call failed on
    attempts,      \* HTTP requests sent to each endpoint (saturates at AttCap)
    \* ---- src/rpc/client.rs: one task in with_retry ----
    retry_attempts, \* config.retry_attempts
    rtokens,       \* cells available in the client's RateLimiter
    wpc,           \* where the task is in with_retry
    wop,           \* the operation: get_block, get_signature_status, or any F
    wattempts,     \* let mut attempts
    wlast_error,   \* let mut last_error
    wbackoff,      \* the backoff last computed, in ms
    wresult,       \* what with_retry returned
    \* ghosts of with_retry
    wcalls,        \* invocations of f by the current call
    wunder,        \* what the request under f failed with, before map_err
    wslept         \* the call slept after its latest failed attempt

VARIABLES
    \* ---- src/rpc/rate_limit.rs: one RateLimiter shared by the tasks ----
    lcfg,          \* the RateLimitConfig: max_rps, burst_size
    lmode,         \* what Quota::allow_n does (see allow_n)
    lquota,        \* the Quota the limiter was built with
    ldebt,         \* GCRA state: ms until the bucket is full again
    lpc,           \* each task: "idle", or "waiting" inside wait_for_permit
    lwake,         \* ms until a waiting task's sleep is over
    \* ghosts of the limiter
    lwaitq,        \* the suspended tasks, in the order they were suspended
    llast,         \* how each task's latest check ended
    lsleep,        \* the sleep each task's latest failed check asked for
    lrun           \* permits granted since the bucket was full with no time
                   \* passing in between (-1: time has passed since)

VARIABLES
    \* ---- a HealthMonitor called directly: core/health.rs, rpc/health.rs ----
    mwhich,        \* the monitor of the run: "core" (state: health) or "rpc"
    sstats,        \* rpc/health.rs HealthMonitor.stats: index -> EndpointStats
    mlock,         \* the monitor's RwLock over its Vec: "free", "write", or
                   \* "read" while check_health holds the read guard
    mop,           \* the record_* call that holds the write lock
    mcur,          \* rpc/health.rs HealthMonitor.current_endpoint (from 0)
    mclock,        \* the RwLock over current_endpoint: "free", or "write"
                   \* while switch_endpoint holds the write guard
    mchk,          \* where the task in check_health is, and the
                   \* current_idx it read
    mhealthy,      \* what check_health returned, if the step just taken
                   \* was its return ("none": it was not)
    \* what the step just taken returned, if it was the return of
    msel,          \* get_healthiest_endpoint, or get_current_endpoint of
                   \* rpc/health.rs (-1: it was not)
    msnap,         \* get_health_stats / get_stats (NoSnapshot: it was not)
    \* ghosts of the monitor
    mstable,       \* the monitor's state when the write lock was last free
    mlast,         \* kind, endpoint and result of the record_* call that
                   \* returned in the step just taken (NoCall: none did)
    mcalls         \* per endpoint, the completed calls of rpc/health.rs
                   \* record_success and record_failure, the bytes and the
                   \* response times the successes reported

VARIABLES
    \* ---- the constructors and RpcError::is_retryable, applied once ----
    bcfg,          \* the configuration handed to the constructors
    bout           \* the function applied in the step just taken, its
                   \* argument and what it returned

VARIABLES
    \* ---- src/fetcher/transaction_fetcher.rs: one TransactionFetcher ----
    fbatch_size,   \* TransactionFetcher.batch_size
    fcheckpoint,   \* TransactionFetcher.checkpoint (0: None)
    flast,         \* the latest fetch_next_batch: the checkpoint it queried
                   \* with, the page it got and what it returned
    \* ghosts of the fetcher
    finitial,      \* the checkpoint the fetcher was constructed with
    flastpage,     \* the most recent non-empty page of signatures
    flisted,       \* the signatures the pages have listed so far
    fdelivered     \* the signatures delivered as a transaction in a batch

dispVars == <<nEndpoints, health, tokens, pc, ep, result,
              sent, last, tried, attempts>>

retryVars == <<retry_attempts, rtokens, wpc, wop, wattempts, wlast_error,
               wbackoff, wresult, wcalls, wunder, wslept>>

limVars == <<lcfg, lmode, lquota, ldebt, lpc, lwake, lwaitq, llast, lsleep,
             lrun>>

monVars == <<mwhich, sstats, mlock, mop, mcur, mclock, mchk, mhealthy, msel, msnap,
             mstable, mlast, mcalls>>

buildVars == <<bcfg, bout>>

fetchVars == <<fbatch_size, fcheckpoint, flast, finitial, flastpage, flisted,
               fdelivered>>

vars == <<dispVars, retryVars, limVars, monVars, buildVars, fetchVars>>

\* what the actions of the dispatcher leave alone
notDisp == <<retryVars, limVars, monVars, buildVars, fetchVars>>
\* what the actions of with_retry leave alone
notRetry == <<dispVars, limVars, monVars, buildVars, fetchVars>>
\* what the actions of the rate limiter leave alone
notLim == <<dispVars, retryVars, monVars, buildVars, fetchVars>>
\* what the calls on a monitor leave alone, besides health
notMon == <<nEndpoints, tokens, pc, ep, result, sent, last, tried, attempts,
            retryVars, limVars, buildVars, fetchVars>>
\* what the constructors leave alone
notBuild == <<dispVars, retryVars, limVars, monVars, fetchVars>>
\* what the calls on a fetcher leave alone
notFetch == <<dispVars, retryVars, limVars, monVars, buildVars>>

(***************************************************************************)
(* src/core/health.rs                                                      *)
(***************************************************************************)
\* (mutant) an endpoint starts unhealthy
EndpointHealth_new_unhealthy ==
    [error_count |-> 0, success_count |-> 0, is_healthy |-> FALSE,
     response_time |-> 0, last_success |-> "none", last_error |-> "none"]

\* EndpointHealth::new (url is the endpoint's index)
EndpointHealth_new ==
    [error_count |-> 0, success_count |-> 0, is_healthy |-> TRUE,
     response_time |-> 0, last_success |-> "none", last_error |-> "none"]

\* EndpointHealth::record_success
record_success(h, response_time) ==
    [h EXCEPT !.success_count = h.success_count + 1,
              !.response_time = response_time,
              !.last_success = "fresh",
              !.is_healthy = TRUE]

\* (mutant) a failure leaves the flag as it was
record_error_keeps_flag(h, error) ==
    [h EXCEPT !.error_count = h.error_count + 1,
              !.last_error = error]

\* EndpointHealth::record_error
record_error(h, error) ==
    [h EXCEPT !.error_count = h.error_count + 1,
              !.last_error = error,
              !.is_healthy = FALSE]

\* EndpointHealth::health_score as the exact fraction <<num, den>>:
\* success_rate * (1000 / (avg_response_time + 1)) * time_factor,
\* time_factor = 1/2 when there is no success or it is over a minute old.
health_score(h) ==
    LET total == h.success_count + h.error_count
        tf2   == IF h.last_success = "fresh" THEN 2 ELSE 1
    IN  IF total = 0 THEN <<1, 1>>
        ELSE <<h.success_count * 1000 * tf2, total * (h.response_time + 1) * 2>>

\* a.partial_cmp(b) on two scores: -1, 0, 1
partial_cmp(a, b) ==
    LET l == a[1] * b[2]
        r == b[1] * a[2]
    IN  IF l < r THEN -1 ELSE IF l = r THEN 0 ELSE 1

\* (mutant) only a healthy endpoint may be tried
should_retry_healthy_only(h) == h.is_healthy

\* (mutant) only the error count decides
should_retry_count_only(h) == h.error_count < ErrorThreshold

\* EndpointHealth::should_retry
should_retry(h) == h.is_healthy \/ h.error_count < ErrorThreshold

\* HealthMonitor::get_healthiest_endpoint: Iterator::max_by returns the last
\* of several equally maximal elements.  0 stands for None.
get_healthiest_endpoint(hs, n) ==
    LET cand == {e \in 1..n : should_retry(hs[e])}
    IN  IF cand = {} THEN 0
        ELSE CHOOSE e \in cand :
               \A f \in cand :
                  LET c == partial_cmp(health_score(hs[f]), health_score(hs[e]))
                  IN  c < 0 \/ (c = 0 /\ f <= e)

(***************************************************************************)
(* src/rpc/mod.rs                                                          *)
(***************************************************************************)
\* The retry strategy of make_request,
\*   ExponentialBackoff::from_millis(base).max_delay(max).map(jitter),
\* is an iterator that never ends (no .take(max_retries)): after every
\* failed attempt Retry::spawn gets a next delay from it.
StrategyHasNext(nsent, maxRetries) == TRUE

\* format!("HTTP error: {}", response.status())
HttpErrorText(o) == IF o = "s500" THEN "HTTP error: 500" ELSE "HTTP error: 400"

\* (mutant) the closure's Err is returned, not retried
RetryOnNothing(o) == FALSE

\* Retry::spawn retries on every Err of the closure, whatever the error.
RetryOn(o) == ~Is2xx(o)

Sat(x, cap) == IF x < cap THEN x + 1 ELSE x

RECURSIVE SumTo(_, _)
SumTo(f, n) == IF n = 0 THEN 0 ELSE f[n] + SumTo(f, n - 1)
\* the outcomes the registry has recorded so far
Recorded ==
    SumTo([e \in 1..nEndpoints |->
              health[e].success_count + health[e].error_count], nEndpoints)

DispInit ==
    /\ nEndpoints \in 1..NumEndpoints
    /\ health = [e \in 1..nEndpoints |-> EndpointHealth_new]
    /\ tokens = Rps
    /\ pc = [c \in Callers |-> "idle"]
    /\ ep = [c \in Callers |-> 0]
    /\ result = [c \in Callers |-> "none"]
    /\ sent = [c \in Callers |-> 0]
    /\ last = [c \in Callers |-> "none"]
    /\ tried = [c \in Callers |-> {}]
    /\ attempts = [e \in 1..nEndpoints |-> 0]

\* get_slot (get_account_info, get_transaction, ...: the same shape) up to
\* the call of make_request
StartCall(c) ==
    /\ pc[c] = "idle"
    /\ LET e == get_healthiest_endpoint(health, nEndpoints)
       IN  /\ ep' = [ep EXCEPT ![c] = e]
           /\ IF e = 0
              THEN /\ pc' = [pc EXCEPT ![c] = "done"]
                   /\ result' = [result EXCEPT ![c] = "AllEndpointsFailed"]
              ELSE /\ pc' = [pc EXCEPT ![c] = "limiter"]
                   /\ result' = result
    /\ UNCHANGED <<nEndpoints, health, tokens, sent, last,
                   tried, attempts>>
    /\ UNCHANGED notDisp

\* make_request: rate_limiter.until_ready() returned within config.timeout
AcquirePermit(c) ==
    /\ pc[c] = "limiter"
    /\ tokens > 0
    /\ tokens' = tokens - 1
    /\ pc' = [pc EXCEPT ![c] = "send"]
    /\ UNCHANGED <<nEndpoints, health, ep, result, sent,
                   last, tried, attempts>>
    /\ UNCHANGED notDisp

\* make_request: config.timeout elapsed before a cell was available
LimiterTimeout(c) ==
    /\ pc[c] = "limiter"
    /\ tokens = 0
    /\ pc' = [pc EXCEPT ![c] = "done"]
    /\ result' = [result EXCEPT ![c] = "Timeout"]
    /\ UNCHANGED <<nEndpoints, health, tokens, ep, sent,
                   last, tried, attempts>>
    /\ UNCHANGED notDisp

\* the ghosts of one attempt of caller c with outcome o
NoteAttempt(c, o) ==
    /\ sent' = [sent EXCEPT ![c] = Sat(sent[c], SentCap)]
    /\ last' = [last EXCEPT ![c] = o]
    /\ tried' = [tried EXCEPT ![c] = IF o = "ok" THEN tried[c]
                                     ELSE tried[c] \cup {ep[c]}]
    /\ attempts' = [attempts EXCEPT ![ep[c]] = Sat(attempts[ep[c]], AttCap)]

\* the "id" field of the body a caller's request carries: the body is
\* built once per call from the literal and cloned for every attempt
RequestId(c) == JsonRpcId

\* the caller's request is on its way: the closure of Retry::spawn is at
\* req.send().await
InFlight(c) == pc[c] = "send"

\* the permits the call under way has been granted: until_ready() is
\* awaited once, before the retry loop
PermitsOf(c) ==
    IF \/ pc[c] \in {"send", "backoff"}
       \/ pc[c] = "done" /\ result[c] \notin {"Timeout", "AllEndpointsFailed"}
    THEN 1 ELSE 0

\* after a failed attempt: the next delay of the strategy, or the error
AfterFailure(c, err) ==
    IF RetryOn(last'[c]) /\ StrategyHasNext(sent'[c], MaxRetries)
    THEN /\ pc' = [pc EXCEPT ![c] = "backoff"]
         /\ result' = result
    ELSE /\ pc' = [pc EXCEPT ![c] = "done"]
         /\ result' = [result EXCEPT ![c] = err]

\* one run of the closure of Retry::spawn answered with a 2xx status, and
\* the decoding of the body that follows the retry loop
AttemptSuccess(c) ==
    /\ pc[c] = "send"
    /\ Recorded < MaxRecords
    /\ \E o \in {"ok", "bad_body"}, rt \in RespTimes :
          /\ health' = [health EXCEPT ![ep[c]] = record_success(@, rt)]
          /\ NoteAttempt(c, o)
          /\ result' = [result EXCEPT ![c] =
                           IF o = "ok" THEN "Ok" ELSE "RequestError"]
    /\ pc' = [pc EXCEPT ![c] = "done"]
    /\ UNCHANGED <<nEndpoints, tokens, ep>>
    /\ UNCHANGED notDisp

\* one run of the closure answered with a non-2xx status
AttemptHttpError(c) ==
    /\ pc[c] = "send"
    /\ Recorded < MaxRecords
    /\ \E o \in {"s500", "s400"} :
          /\ NoteAttempt(c, o)
          /\ health' = [health EXCEPT ![ep[c]] = record_error(@, HttpErrorText(o))]
    /\ AfterFailure(c, "RequestError")
    /\ UNCHANGED <<nEndpoints, tokens, ep>>
    /\ UNCHANGED notDisp

\* one run of the closure in which req.send().await? returned early
AttemptSendError(c) ==
    /\ pc[c] = "send"
    /\ NoteAttempt(c, "send_err")
    /\ AfterFailure(c, "RequestError")
    /\ UNCHANGED <<nEndpoints, health, tokens, ep>>
    /\ UNCHANGED notDisp

\* the sleep of Retry::spawn is over: the closure runs again
Backoff(c) ==
    /\ pc[c] = "backoff"
    /\ pc' = [pc EXCEPT ![c] = "send"]
    /\ UNCHANGED <<nEndpoints, health, tokens, ep, result, sent,
                   last, tried, attempts>>
    /\ UNCHANGED notDisp

\* the caller has its result and may call again
Return(c) ==
    /\ pc[c] = "done"
    /\ pc' = [pc EXCEPT ![c] = "idle"]
    /\ ep' = [ep EXCEPT ![c] = 0]
    /\ result' = [result EXCEPT ![c] = "none"]
    /\ sent' = [sent EXCEPT ![c] = 0]
    /\ last' = [last EXCEPT ![c] = "none"]
    /\ tried' = [tried EXCEPT ![c] = {}]
    /\ UNCHANGED <<nEndpoints, health, tokens, attempts>>
    /\ UNCHANGED notDisp

\* one second passes: the limiter (Quota::with_period(1 s)) gains a cell
Refill ==
    /\ tokens < Rps
    /\ tokens' = tokens + 1
    /\ UNCHANGED <<nEndpoints, health, pc, ep, result, sent,
                   last, tried, attempts>>
    /\ UNCHANGED notDisp

\* more than a minute passes: every success so far is over 60 s old
TimePasses ==
    /\ \E e \in 1..nEndpoints : health[e].last_success = "fresh"
    /\ health' = [e \in 1..nEndpoints |->
                    IF health[e].last_success = "fresh"
                    THEN [health[e] EXCEPT !.last_success = "stale"]
                    ELSE health[e]]
    /\ tokens' = Rps
    /\ UNCHANGED <<nEndpoints, pc, ep, result, sent, last,
                   tried, attempts>>
    /\ UNCHANGED notDisp

Step(c) ==
    \/ StartCall(c)
    \/ AcquirePermit(c)
    \/ LimiterTimeout(c)
    \/ AttemptSuccess(c)
    \/ AttemptHttpError(c)
    \/ AttemptSendError(c)
    \/ Backoff(c)
    \/ Return(c)

(***************************************************************************)
(* src/rpc/error.rs                                                        *)
(***************************************************************************)
\* the variants of RpcError
RpcErrors ==
    {"InvalidConfig", "NoEnabledEndpoints", "InvalidEndpoint", "RequestFailed",
     "RateLimitExceeded", "Timeout", "RetryLimitExceeded", "HealthCheckFailed",
     "Internal", "ConnectionError", "CircuitBreakerOpen", "AllEndpointsFailed"}

\* (mutant) an Internal error is retried too
is_retryable_or_internal(e) ==
    e \in {"RequestFailed", "RateLimitExceeded", "Timeout", "ConnectionError",
           "Internal"}

\* RpcError::is_retryable
is_retryable(e) ==
    e \in {"RequestFailed", "RateLimitExceeded", "Timeout", "ConnectionError"}

\* RpcError::with_context (the variant it returns; the text is left out)
with_context(e) ==
    IF e \in {"RequestFailed", "Internal"} THEN "Internal" ELSE e

(***************************************************************************)
(* src/rpc/client.rs: with_retry and its two users.  with_retry is generic *)
(* in the operation F, so besides get_block and get_signature_status the   *)
(* model runs it on "generic", an F that may fail with any RpcError.       *)
(* health_monitor.is_circuit_breaker_open() is not in the source: it may   *)
(* answer either way.  The monitor's record_success / record_failure are   *)
(* called with signatures the source does not define; they change nothing *)
(* that with_retry reads.                                                  *)
(***************************************************************************)
BlockOps == {"get_block", "get_signature_status"}
Ops == BlockOps \cup {"generic"}

\* what the request under the operation can fail with: get_block and
\* get_signature_status wrap every ClientError as RpcError::RequestFailed
UnderErrors(op) == IF op \in BlockOps THEN {"RequestFailed"} ELSE RpcErrors

\* the Err that f() hands to with_retry: the closures of get_block and
\* get_signature_status end in .map_err(|e| RequestFailed(e).with_context(..))
ClosureError(op, under) == IF op \in BlockOps THEN with_context(under) ELSE under

\* (mutant) one attempt too many
LoopGuardInclusive(att, maxAttempts) == att <= maxAttempts

\* while attempts < max_attempts
LoopGuard(att, maxAttempts) == att < maxAttempts

\* retry_delay_ms * 2u64.pow(attempts)
BackoffMs(att) == retry_delay_ms * 2 ^ att

RetryInit ==
    /\ retry_attempts \in 0..MaxRetryAttempts
    /\ rtokens = Burst
    /\ wpc = "idle"
    /\ wop = "none"
    /\ wattempts = 0
    /\ wlast_error = "none"
    /\ wbackoff = 0
    /\ wresult = "none"
    /\ wcalls = 0
    /\ wunder = "none"
    /\ wslept = FALSE

\* get_block / get_signature_status / any user: with_retry is entered
WStart ==
    /\ wpc = "idle"
    /\ \E op \in Ops : wop' = op
    /\ wpc' = "loop"
    /\ wattempts' = 0
    /\ wlast_error' = "none"
    /\ UNCHANGED <<retry_attempts, rtokens, wbackoff, wresult, wcalls, wunder,
                   wslept>>
    /\ UNCHANGED notRetry

\* the head of the loop and the circuit-breaker check, or the code after it
WLoop ==
    /\ wpc = "loop"
    /\ IF LoopGuard(wattempts, retry_attempts)
       THEN \E open \in BOOLEAN :
               IF open
               THEN /\ wpc' = "done"
                    /\ wresult' = "CircuitBreakerOpen"
               ELSE /\ wpc' = "permit"
                    /\ wresult' = wresult
       ELSE /\ wpc' = "done"
            /\ wresult' = "RetryFailed"
    /\ UNCHANGED <<retry_attempts, rtokens, wop, wattempts, wlast_error,
                   wbackoff, wcalls, wunder, wslept>>
    /\ UNCHANGED notRetry

\* rate_limiter.wait_for_permit() returned
WPermit ==
    /\ wpc = "permit"
    /\ rtokens > 0
    /\ rtokens' = rtokens - 1
    /\ wpc' = "call"
    /\ UNCHANGED <<retry_attempts, wop, wattempts, wlast_error, wbackoff,
                   wresult, wcalls, wunder, wslept>>
    /\ UNCHANGED notRetry

\* match f(): Ok
WCallOk ==
    /\ wpc = "call"
    /\ wcalls' = wcalls + 1
    /\ wpc' = "done"
    /\ wresult' = "Ok"
    /\ wslept' = FALSE
    /\ UNCHANGED <<retry_attempts, rtokens, wop, wattempts, wlast_error,
                   wbackoff, wunder>>
    /\ UNCHANGED notRetry

\* match f(): Err(e)
WCallErr ==
    /\ wpc = "call"
    /\ wcalls' = wcalls + 1
    /\ wslept' = FALSE
    /\ \E under \in UnderErrors(wop) :
          LET e == ClosureError(wop, under)
          IN  /\ wunder' = under
              /\ IF ~is_retryable(e)
                 THEN /\ wpc' = "done"
                      /\ wresult' = with_context(e)
                      /\ UNCHANGED <<wlast_error, wattempts, wbackoff>>
                 ELSE /\ wlast_error' = e
                      /\ wattempts' = wattempts + 1
                      /\ wbackoff' = BackoffMs(wattempts')
                      /\ wpc' = "sleep"
                      /\ wresult' = wresult
    /\ UNCHANGED <<retry_attempts, rtokens, wop>>
    /\ UNCHANGED notRetry

\* tokio::time::sleep(backoff) is over
WSleep ==
    /\ wpc = "sleep"
    /\ wpc' = "loop"
    /\ wslept' = TRUE
    /\ UNCHANGED <<retry_attempts, rtokens, wop, wattempts, wlast_error,
                   wbackoff, wresult, wcalls, wunder>>
    /\ UNCHANGED notRetry

\* the task has its result and may call again
WReturn ==
    /\ wpc = "done"
    /\ wpc' = "idle"
    /\ wop' = "none"
    /\ wattempts' = 0
    /\ wlast_error' = "none"
    /\ wbackoff' = 0
    /\ wresult' = "none"
    /\ wcalls' = 0
    /\ wunder' = "none"
    /\ wslept' = FALSE
    /\ UNCHANGED <<retry_attempts, rtokens>>
    /\ UNCHANGED notRetry

\* the limiter gains a cell
WRefill ==
    /\ rtokens < Burst
    /\ rtokens' = rtokens + 1
    /\ UNCHANGED <<retry_attempts, wpc, wop, wattempts, wlast_error, wbackoff,
                   wresult, wcalls, wunder, wslept>>
    /\ UNCHANGED notRetry

(***************************************************************************)
(* src/rpc/rate_limit.rs: RateLimiter over governor's direct limiter.      *)
(* governor keeps one number per limiter (the theoretical arrival time of  *)
(* the generic cell rate algorithm); ldebt is that number minus the        *)
(* clock: the time until the bucket is full again.  until_ready() checks,  *)
(* and on a denial sleeps for the time the check reported and checks       *)
(* again; it keeps no queue of waiters.                                    *)
(***************************************************************************)
\* what the call .allow_n(max_rps) may do to the quota: governor's Quota
\* has no method of this name, so either the quota stays as with_period
\* and allow_burst left it, or n cells are replenished per period
AllowNModes == {"period", "rate"}

\* Quota::with_period(replenish_1_per)
with_period(period) == [replenish_1_per |-> period, max_burst |-> 1]

\* Quota::allow_burst(max_burst)
allow_burst(q, burst) == [q EXCEPT !.max_burst = burst]

\* .allow_n(max_rps)
allow_n(q, n, mode) ==
    IF mode = "rate"
    THEN [q EXCEPT !.replenish_1_per = q.replenish_1_per \div n]
    ELSE q

\* RateLimiter::new: the quota of the limiter
RateLimiter_new(cfg, mode) ==
    allow_n(allow_burst(with_period(QuotaPeriodMs), cfg.burst_size),
            cfg.max_rps, mode)

\* (mutant) replenishing goes on when the bucket is full
Max0NoClamp(x) == x

\* the bucket does not fill beyond its burst
Max0(x) == IF x < 0 THEN 0 ELSE x

\* (mutant) one cell more than the burst is granted
GcraAllowsOneMore(debt, q) == debt <= q.max_burst * q.replenish_1_per

\* the check of the limiter: a cell is free now
GcraAllows(debt, q) == debt <= (q.max_burst - 1) * q.replenish_1_per

\* the wait a denied check reports: the time until a cell is free
GcraWait(debt, q) == debt - (q.max_burst - 1) * q.replenish_1_per

\* whole cells in the bucket
LTokens == (lquota.max_burst * lquota.replenish_1_per - ldebt)
              \div lquota.replenish_1_per

Without(q, t) == SelectSeq(q, LAMBDA x : x # t)
InSeq(q, t) == \E i \in 1..Len(q) : q[i] = t

LimInit ==
    /\ lcfg \in [max_rps : 1..MaxRps, burst_size : 1..MaxBurst]
    /\ lmode \in AllowNModes
    /\ lquota = RateLimiter_new(lcfg, lmode)
    /\ ldebt = 0
    /\ lpc = [t \in Callers |-> "idle"]
    /\ lwake = [t \in Callers |-> 0]
    /\ lwaitq = << >>
    /\ llast = [t \in Callers |-> "none"]
    /\ lsleep = [t \in Callers |-> 0]
    /\ lrun = 0

\* wait_for_permit: one check of until_ready(), the first of a call or the
\* one after a sleep; Ok(()) when it grants, a sleep when it does not
LCheck(t) ==
    /\ lpc[t] = "idle" \/ (lpc[t] = "waiting" /\ lwake[t] = 0)
    /\ IF GcraAllows(ldebt, lquota)
       THEN /\ ldebt' = ldebt + lquota.replenish_1_per
            /\ lpc' = [lpc EXCEPT ![t] = "idle"]
            /\ llast' = [llast EXCEPT ![t] = "granted"]
            /\ lwaitq' = Without(lwaitq, t)
            /\ lrun' = IF lrun >= 0 THEN lrun + 1 ELSE lrun
            /\ UNCHANGED <<lwake, lsleep>>
       ELSE /\ lpc' = [lpc EXCEPT ![t] = "waiting"]
            /\ lwake' = [lwake EXCEPT ![t] = GcraWait(ldebt, lquota)]
            /\ lsleep' = [lsleep EXCEPT ![t] = GcraWait(ldebt, lquota)]
            /\ llast' = [llast EXCEPT ![t] = "suspended"]
            /\ lwaitq' = IF InSeq(lwaitq, t) THEN lwaitq ELSE Append(lwaitq, t)
            /\ UNCHANGED <<ldebt, lrun>>
    /\ UNCHANGED <<lcfg, lmode, lquota>>
    /\ UNCHANGED notLim

\* time passes: up to the end of a task's sleep, or a whole period
LElapse ==
    /\ ldebt > 0 \/ \E t \in Callers : lwake[t] > 0
    /\ \E dt \in {lwake[t] : t \in Callers} \cup {QuotaPeriodMs} :
          /\ dt > 0
          /\ ldebt' = Max0(ldebt - dt)
          /\ lwake' = [t \in Callers |-> IF lwake[t] > dt THEN lwake[t] - dt
                                          ELSE 0]
    /\ lrun' = IF ldebt' = 0 THEN 0 ELSE -1
    /\ UNCHANGED <<lcfg, lmode, lquota, lpc, lwaitq, llast, lsleep>>
    /\ UNCHANGED notLim

(***************************************************************************)
(* The two health monitors called directly, by several tasks.  Both keep   *)
(* their Vec behind a tokio RwLock: record_* hold the write guard from     *)
(* their first line to their return and assign field after field under     *)
(* it; get_health_stats / get_stats and get_healthiest_endpoint clone or   *)
(* read under the read guard.  A run is about one monitor: the one of      *)
(* core/health.rs (the client of rpc/mod.rs) or the one of rpc/health.rs   *)
(* (the client of rpc/client.rs).                                          *)
(***************************************************************************)
Monitors == {"core", "rpc"}

\* bytes_transferred of the calls of SpecMonitor
ByteSizes == {7}

\* EndpointStats::default; avg_response_time_ms is the fraction <<num, den>>.
\* last_success is "none", "fresh" (less than 30 s old) or "stale".
EndpointStats_default ==
    [successful_requests |-> 0, failed_requests |-> 0,
     avg_response_time_ms |-> <<0, 1>>, current_rps |-> 0,
     total_bytes_transferred |-> 0,
     last_success |-> "none", last_failure |-> "none"]

\* rpc/health.rs record_success: the running average over total_requests
NewAverage(st, response_time_ms) ==
    LET total_requests == st.successful_requests + st.failed_requests
        avg == st.avg_response_time_ms
    IN  <<avg[1] * (total_requests - 1) + response_time_ms * avg[2],
          avg[2] * total_requests>>

\* (mutant) the byte counter is overwritten
AddBytesOverwrite(total, bytes_transferred) == bytes_transferred

\* stats.total_bytes_transferred += bytes_transferred
AddBytes(total, bytes_transferred) == total + bytes_transferred

\* (mutant) a failure also forgets the last success
StampFailureForgetsSuccess(st) ==
    [st EXCEPT !.last_failure = "fresh", !.last_success = "none"]

\* rpc/health.rs record_failure: stats.last_failure = Some(Instant::now())
StampFailure(st) == [st EXCEPT !.last_failure = "fresh"]

\* the kinds of record_* call and the monitor each belongs to
RecordKinds(which) ==
    IF which = "core" THEN {"record_success", "record_error"}
    ELSE {"stats_record_success", "stats_record_failure"}

\* the arguments a record_* call is made with; endpoint e of the model is
\* endpoint_idx e - 1 of rpc/health.rs
RecordOps(which) ==
    IF which = "core"
    THEN [kind : RecordKinds(which), url : 1..NumEndpoints, step : {0},
          response_time : RespTimes, bytes : {0}, error : {"HTTP error: 500"}]
    ELSE [kind : {"stats_record_success"}, url : 1..(NumEndpoints + 1),
          step : {0}, response_time : RespTimes, bytes : ByteSizes,
          error : {"none"}]
         \cup
         [kind : {"stats_record_failure"}, url : 1..(NumEndpoints + 1),
          step : {0}, response_time : {0}, bytes : {0}, error : {"none"}]

\* the assignments a record_* call makes under the write guard
NumFields(kind) ==
    CASE kind = "record_success" -> 4
      [] kind = "record_error" -> 3
      [] kind = "stats_record_success" -> 4
      [] kind = "stats_record_failure" -> 2

\* the i-th assignment of a record_* call, in the order of the source
FieldStep(h, op, i) ==
    CASE op.kind = "record_success" ->
           (CASE i = 1 -> [h EXCEPT !.success_count = h.success_count + 1]
              [] i = 2 -> [h EXCEPT !.response_time = op.response_time]
              [] i = 3 -> [h EXCEPT !.last_success = "fresh"]
              [] i = 4 -> [h EXCEPT !.is_healthy = TRUE])
      [] op.kind = "record_error" ->
           (CASE i = 1 -> [h EXCEPT !.error_count = h.error_count + 1]
              [] i = 2 -> [h EXCEPT !.last_error = op.error]
              [] i = 3 -> [h EXCEPT !.is_healthy = FALSE])
      [] op.kind = "stats_record_success" ->
           (CASE i = 1 -> [h EXCEPT !.successful_requests =
                                        h.successful_requests + 1]
              [] i = 2 -> [h EXCEPT !.total_bytes_transferred =
                              AddBytes(h.total_bytes_transferred, op.bytes)]
              [] i = 3 -> [h EXCEPT !.last_success = "fresh"]
              [] i = 4 -> [h EXCEPT !.avg_response_time_ms =
                                        NewAverage(h, op.response_time)])
      [] op.kind = "stats_record_failure" ->
           (CASE i = 1 -> [h EXCEPT !.failed_requests = h.failed_requests + 1]
              [] i = 2 -> StampFailure(h))

\* rpc/health.rs HealthMonitor::record_success, as a whole
stats_record_success(st, response_time_ms, bytes_transferred) ==
    LET counted == [st EXCEPT
                      !.successful_requests = st.successful_requests + 1,
                      !.total_bytes_transferred =
                          AddBytes(st.total_bytes_transferred,
                                   bytes_transferred),
                      !.last_success = "fresh"]
    IN  [counted EXCEPT !.avg_response_time_ms =
                            NewAverage(counted, response_time_ms)]

\* rpc/health.rs HealthMonitor::record_failure, as a whole
stats_record_failure(st) ==
    StampFailure([st EXCEPT !.failed_requests = st.failed_requests + 1])

\* a record_* call as a whole
WholeRecord(h, op) ==
    CASE op.kind = "record_success" -> record_success(h, op.response_time)
      [] op.kind = "record_error" -> record_error(h, op.error)
      [] op.kind = "stats_record_success" ->
             stats_record_success(h, op.response_time, op.bytes)
      [] op.kind = "stats_record_failure" -> stats_record_failure(h)

\* the Vec of a monitor just built
MonInitial ==
    IF mwhich = "core" THEN [e \in 1..nEndpoints |-> EndpointHealth_new]
    ELSE [e \in 1..nEndpoints |-> EndpointStats_default]

\* the Vec of the monitor of the run
MonState == IF mwhich = "core" THEN health ELSE sstats

\* record_* calls made so far on the monitor of the run
MonRecorded ==
    IF mwhich = "core" THEN Recorded
    ELSE SumTo([e \in 1..nEndpoints |->
                   sstats[e].successful_requests + sstats[e].failed_requests],
               nEndpoints)

\* the step just taken was not a get_health_stats / get_stats
NoSnapshot == <<>>

NoOp == [kind |-> "none", url |-> 0, step |-> 0, response_time |-> 0,
         bytes |-> 0, error |-> "none"]

\* the step just taken was not the return of a record_* call
NoCall == <<"none", 0, <<"none", 0>>>>

\* the ghost of the completed calls of one endpoint
NoCalls == [succ |-> 0, fail |-> 0, bytes |-> 0, rtsum |-> 0]

\* the ghost after the call op has completed
CountCall(calls, op) ==
    IF op.kind = "stats_record_success"
    THEN [calls EXCEPT ![op.url] =
             [@ EXCEPT !.succ = @ + 1, !.bytes = @ + op.bytes,
                       !.rtsum = @ + op.response_time]]
    ELSE IF op.kind = "stats_record_failure"
    THEN [calls EXCEPT ![op.url] = [@ EXCEPT !.fail = @ + 1]]
    ELSE calls

\* (mutant) the clone does not wait for the writer
ReadGuardFreeAlways(lock) == TRUE

\* RwLock::read().await returns: no task holds the write guard
ReadGuardFree(lock) == lock # "write"

\* RwLock::write().await returns: no task holds a guard
WriteGuardFree(lock) == lock = "free"

\* (mutant) the index one past the end passes the check
IndexInRangeInclusive(endpoint_idx, len) == endpoint_idx <= len

\* the negation of `endpoint_idx >= stats.len()`
IndexInRange(endpoint_idx, len) == endpoint_idx < len

\* last_success.map(|last| now - last < 30 s).unwrap_or(false)
RecentSuccess(st) == st.last_success = "fresh"

\* (mutant) check_health does not look at the other endpoints
FirstRecentNone(stats, n) == -1

\* the `for (idx, stats) in stats.iter().enumerate()` of check_health: the
\* index (from 0) of the first endpoint with a recent success, or -1
FirstRecent(stats, n) ==
    IF \E e \in 1..n : RecentSuccess(stats[e])
    THEN (CHOOSE e \in 1..n :
             /\ RecentSuccess(stats[e])
             /\ \A d \in 1..(e - 1) : ~RecentSuccess(stats[d])) - 1
    ELSE -1

\* every recorded success is no longer recent
Aged(v) ==
    [e \in DOMAIN v |->
        IF v[e].last_success = "fresh"
        THEN [v[e] EXCEPT !.last_success = "stale"] ELSE v[e]]

MonInit ==
    /\ mwhich \in Monitors
    /\ sstats = [e \in 1..nEndpoints |-> EndpointStats_default]
    /\ mlock = "free"
    /\ mop = NoOp
    /\ mcur = 0
    /\ mclock = "free"
    /\ mchk = [pc |-> "idle", cur |-> 0]
    /\ mhealthy = "none"
    /\ msel = -1
    /\ msnap = NoSnapshot
    /\ mstable = MonState
    /\ mlast = NoCall
    /\ mcalls = [e \in 1..nEndpoints |-> NoCalls]

\* record_success / record_error / record_failure with an index that
\* passes the check of the index (core/health.rs has none): the write guard
\* is taken; `&mut stats[endpoint_idx]` panics on an index past the end
MBegin ==
    /\ WriteGuardFree(mlock)
    /\ MonRecorded < MaxMonRecords
    /\ \E op \in RecordOps(mwhich) :
          /\ op.url <= nEndpoints + 1
          /\ mwhich = "core" => op.url <= nEndpoints
          /\ mwhich = "rpc" => IndexInRange(op.url - 1, nEndpoints)
          /\ IF op.url \in 1..nEndpoints
             THEN /\ mop' = op
                  /\ mlock' = "write"
                  /\ mlast' = NoCall
             ELSE /\ mop' = mop
                  /\ mlock' = mlock
                  /\ mlast' = <<op.kind, op.url, <<"panic", 0>>>>
    /\ msnap' = NoSnapshot
    /\ msel' = -1
    /\ mhealthy' = "none"
    /\ UNCHANGED <<health, mwhich, sstats, mcur, mchk, mstable, mcalls>>
    /\ UNCHANGED <<mclock, notMon>>

\* rpc/health.rs record_success / record_failure with an index that fails
\* the check: Err(InvalidEndpoint(endpoint_idx)), the guard is dropped
MInvalid ==
    /\ mwhich = "rpc"
    /\ WriteGuardFree(mlock)
    /\ \E op \in RecordOps(mwhich) :
          /\ op.url <= nEndpoints + 1
          /\ ~IndexInRange(op.url - 1, nEndpoints)
          /\ mlast' = <<op.kind, op.url, <<"InvalidEndpoint", op.url - 1>>>>
    /\ msnap' = NoSnapshot
    /\ msel' = -1
    /\ mhealthy' = "none"
    /\ UNCHANGED <<health, sstats, mwhich, mlock, mop, mcur, mchk, mstable,
                   mcalls>>
    /\ UNCHANGED <<mclock, notMon>>

\* the next assignment of the call that holds the write guard
MField ==
    /\ mlock = "write"
    /\ mop.step < NumFields(mop.kind)
    /\ mop' = [mop EXCEPT !.step = mop.step + 1]
    /\ IF mwhich = "core"
       THEN /\ health' = [health EXCEPT
                             ![mop.url] = FieldStep(@, mop, mop.step + 1)]
            /\ sstats' = sstats
       ELSE /\ sstats' = [sstats EXCEPT
                             ![mop.url] = FieldStep(@, mop, mop.step + 1)]
            /\ health' = health
    /\ msnap' = NoSnapshot
    /\ msel' = -1
    /\ mhealthy' = "none"
    /\ UNCHANGED <<mwhich, mlock, mcur, mchk, mstable, mcalls>>
    /\ mlast' = NoCall
    /\ UNCHANGED <<mclock, notMon>>

\* the call returns Ok (core/health.rs: returns): the write guard is dropped
MEnd ==
    /\ mlock = "write"
    /\ mop.step = NumFields(mop.kind)
    /\ mlock' = "free"
    /\ mop' = NoOp
    /\ mstable' = MonState
    /\ mlast' = <<mop.kind, mop.url, <<"Ok", 0>>>>
    /\ mcalls' = CountCall(mcalls, mop)
    /\ msnap' = NoSnapshot
    /\ msel' = -1
    /\ mhealthy' = "none"
    /\ UNCHANGED <<health, mwhich, sstats, mcur, mchk>>
    /\ UNCHANGED <<mclock, notMon>>

\* get_health_stats / get_stats: the clone under the read guard
MSnapshot ==
    /\ ReadGuardFree(mlock)
    /\ msnap' = MonState
    /\ msnap' # msnap
    /\ msel' = -1
    /\ mhealthy' = "none"
    /\ UNCHANGED <<health, mwhich, sstats, mlock, mop, mcur, mchk, mstable, mcalls>>
    /\ mlast' = NoCall
    /\ UNCHANGED <<mclock, notMon>>

\* core/health.rs get_healthiest_endpoint under the read guard
MSelect ==
    /\ mwhich = "core"
    /\ ReadGuardFree(mlock)
    /\ msel' = get_healthiest_endpoint(health, nEndpoints)
    /\ msel' # msel
    /\ msnap' = NoSnapshot
    /\ mhealthy' = "none"
    /\ UNCHANGED <<health, mwhich, sstats, mlock, mop, mcur, mchk, mstable, mcalls>>
    /\ mlast' = NoCall
    /\ UNCHANGED <<mclock, notMon>>

\* rpc/health.rs check_health, `let stats = self.stats.read().await`: the
\* read guard on the statistics is taken, and kept to the return
MCheckRead ==
    /\ mwhich = "rpc"
    /\ mchk.pc = "idle"
    /\ mlock = "free"
    /\ mlock' = "read"
    /\ mchk' = [pc |-> "locked", cur |-> 0]
    /\ msnap' = NoSnapshot
    /\ msel' = -1
    /\ mhealthy' = "none"
    /\ UNCHANGED <<health, mwhich, sstats, mop, mcur, mstable, mcalls>>
    /\ mlast' = NoCall
    /\ UNCHANGED <<mclock, notMon>>

\* check_health, `*self.current_endpoint.read().await`: current_endpoint is
\* read under a read guard that is dropped at the end of the statement
MCheckCurrent ==
    /\ mchk.pc = "locked"
    /\ ReadGuardFree(mclock)
    /\ mchk' = [pc |-> "read", cur |-> mcur]
    /\ msnap' = NoSnapshot
    /\ msel' = -1
    /\ mhealthy' = "none"
    /\ UNCHANGED <<health, mwhich, sstats, mlock, mop, mcur, mstable,
                   mcalls>>
    /\ mlast' = NoCall
    /\ UNCHANGED <<mclock, notMon>>

\* check_health, the rest: the endpoint it read, then the scan, which
\* makes the first endpoint with a recent success the current one
\* (`*self.current_endpoint.write().await = idx`: the write guard is taken
\* and dropped in one statement)
MCheckDecide ==
    /\ mchk.pc = "read"
    /\ LET idx == FirstRecent(sstats, nEndpoints)
       IN  IF RecentSuccess(sstats[mchk.cur + 1])
           THEN /\ mhealthy' = "healthy"
                /\ mcur' = mcur
           ELSE IF idx # -1
           THEN /\ WriteGuardFree(mclock)
                /\ mhealthy' = "healthy"
                /\ mcur' = idx
           ELSE /\ mhealthy' = "unhealthy"
                /\ mcur' = mcur
    /\ mchk' = [pc |-> "idle", cur |-> 0]
    /\ mlock' = "free"
    /\ msnap' = NoSnapshot
    /\ msel' = -1
    /\ UNCHANGED <<health, mwhich, sstats, mop, mstable, mcalls>>
    /\ mlast' = NoCall
    /\ UNCHANGED <<mclock, notMon>>

\* rpc/health.rs get_current_endpoint: the index under the read guard
MCurrent ==
    /\ mwhich = "rpc"
    /\ ReadGuardFree(mclock)
    /\ msel' = mcur
    /\ msel' # msel
    /\ msnap' = NoSnapshot
    /\ mhealthy' = "none"
    /\ UNCHANGED <<health, mwhich, sstats, mlock, mop, mcur, mchk, mstable,
                   mcalls>>
    /\ mlast' = NoCall
    /\ UNCHANGED <<mclock, notMon>>

\* (mutant) switch_endpoint also waits for the statistics to be unlocked
SwitchWaitsForStats(lock) == lock = "free"

\* switch_endpoint takes the guard on current_endpoint and no other: it
\* goes on whatever the state of the lock over the statistics
SwitchTakesOneGuard(lock) == TRUE

\* rpc/health.rs switch_endpoint, `self.current_endpoint.write().await`
MSwitchLock ==
    /\ mwhich = "rpc"
    /\ WriteGuardFree(mclock)
    /\ mclock' = "write"
    /\ msnap' = NoSnapshot
    /\ msel' = -1
    /\ mhealthy' = "none"
    /\ UNCHANGED <<health, mwhich, sstats, mlock, mop, mcur, mchk, mstable,
                   mcalls>>
    /\ mlast' = NoCall
    /\ UNCHANGED notMon

\* switch_endpoint, the rest: the next index, and the guard is dropped
MSwitch ==
    /\ mclock = "write"
    /\ SwitchTakesOneGuard(mlock)
    /\ mcur' = (mcur + 1) % nEndpoints
    /\ mclock' = "free"
    /\ msnap' = NoSnapshot
    /\ msel' = -1
    /\ mhealthy' = "none"
    /\ UNCHANGED <<health, mwhich, sstats, mlock, mop, mchk, mstable,
                   mcalls>>
    /\ mlast' = NoCall
    /\ UNCHANGED notMon

\* time passes while no record_* call is under way (there is no await
\* between taking the write guard and the return): every success so far
\* is no longer recent (core/health.rs: over 60 s old; rpc/health.rs: 30 s
\* old or more)
MAge ==
    /\ mlock # "write"
    /\ \E e \in 1..nEndpoints : MonState[e].last_success = "fresh"
    /\ IF mwhich = "core"
       THEN health' = Aged(health) /\ sstats' = sstats
       ELSE sstats' = Aged(sstats) /\ health' = health
    /\ mstable' = Aged(mstable)
    /\ msnap' = NoSnapshot
    /\ msel' = -1
    /\ mhealthy' = "none"
    /\ UNCHANGED <<mwhich, mlock, mop, mcur, mchk, mcalls>>
    /\ mlast' = NoCall
    /\ UNCHANGED <<mclock, notMon>>

(***************************************************************************)
(* The constructors, applied to configurations drawn from a bounded set:   *)
(* RateLimiter::new (rpc/rate_limit.rs), SolanaRpcClient::new of           *)
(* rpc/client.rs and SolanaRpcClient::new of rpc/mod.rs; and               *)
(* RpcError::is_retryable applied to every variant.  One record stands for *)
(* both RpcConfig types: rpc/config.rs has endpoints (url, enabled),       *)
(* max_concurrent_requests and rate_limit; config/mod.rs has               *)
(* requests_per_second.  Of a URL string the model keeps whether it is a   *)
(* well-formed http / https URL.  A panic is the result "panic".           *)
(***************************************************************************)
\* endpoint lists of length 0..n
RECURSIVE EndpointLists(_)
EndpointLists(n) ==
    IF n = 0 THEN {<<>>}
    ELSE LET shorter == EndpointLists(n - 1)
         IN  shorter \cup
             {Append(l, e) : l \in {x \in shorter : Len(x) = n - 1},
                             e \in [url_ok : BOOLEAN, enabled : BOOLEAN]}

Configs ==
    [endpoints : EndpointLists(NumEndpoints),
     max_concurrent_requests : 0..1,
     rate_limit : [max_rps : 0..MaxRps, burst_size : 0..MaxBurst],
     requests_per_second : 0..Rps]

\* NonZeroU32::new
NonZeroU32_new(x) == IF x = 0 THEN "None" ELSE "Some"

\* RateLimiter::new up to the quota: the two ok_or_else(..)?
RateLimiter_try_new(cfg) ==
    IF NonZeroU32_new(cfg.max_rps) = "None" THEN <<"InvalidConfig", 0>>
    ELSE IF NonZeroU32_new(cfg.burst_size) = "None" THEN <<"InvalidConfig", 0>>
    ELSE <<"Ok", 0>>

\* (mutant) the first endpoint of the list, enabled or not
find_first(endpoints) == IF Len(endpoints) = 0 THEN 0 ELSE 1

\* config.endpoints.iter().find(|e| e.enabled): its position from 1, or 0
find_enabled(endpoints) ==
    IF \E i \in 1..Len(endpoints) : endpoints[i].enabled
    THEN CHOOSE i \in 1..Len(endpoints) :
            /\ endpoints[i].enabled
            /\ \A j \in 1..(i - 1) : ~endpoints[j].enabled
    ELSE 0

\* SolanaRpcClient::new of rpc/client.rs; Ok carries the position of the
\* endpoint the RpcClient is built on.  Neither max_concurrent_requests
\* nor the URL is looked at: RpcClient::new_with_commitment takes any
\* string and returns no Result.
client_SolanaRpcClient_new(cfg) ==
    IF RateLimiter_try_new(cfg.rate_limit)[1] # "Ok"
    THEN RateLimiter_try_new(cfg.rate_limit)
    ELSE IF find_enabled(cfg.endpoints) = 0 THEN <<"NoEnabledEndpoints", 0>>
    ELSE <<"Ok", find_enabled(cfg.endpoints)>>

\* SolanaRpcClient::new of rpc/mod.rs:
\* NonZeroU32::new(config.requests_per_second).unwrap()
mod_SolanaRpcClient_new(cfg) ==
    IF NonZeroU32_new(cfg.requests_per_second) = "None" THEN <<"panic", 0>>
    ELSE <<"Ok", 0>>

\* Client::current_endpoint of rpc/client.rs (metrics reports the same
\* index): the position of config.endpoints.get(current_idx), current_idx
\* being HealthMonitor::get_current_endpoint()
client_current_endpoint(cfg, current_idx) ==
    IF current_idx + 1 \in 1..Len(cfg.endpoints)
    THEN <<"Ok", current_idx + 1>>
    ELSE <<"InvalidEndpoint", current_idx>>

NoCallYet == [fn |-> "none", arg |-> "none", res |-> <<"none", 0>>]

BuildInit ==
    /\ bcfg \in Configs
    /\ bout = NoCallYet

BuildLimiter ==
    /\ bout' = [fn |-> "RateLimiter::new", arg |-> "config",
                res |-> RateLimiter_try_new(bcfg.rate_limit)]
    /\ bout' # bout
    /\ UNCHANGED bcfg
    /\ UNCHANGED notBuild

BuildClient ==
    /\ bout' = [fn |-> "client::SolanaRpcClient::new", arg |-> "config",
                res |-> client_SolanaRpcClient_new(bcfg)]
    /\ bout' # bout
    /\ UNCHANGED bcfg
    /\ UNCHANGED notBuild

BuildDispatcher ==
    /\ bout' = [fn |-> "mod::SolanaRpcClient::new", arg |-> "config",
                res |-> mod_SolanaRpcClient_new(bcfg)]
    /\ bout' # bout
    /\ UNCHANGED bcfg
    /\ UNCHANGED notBuild

Classify ==
    /\ \E e \in RpcErrors :
          bout' = [fn |-> "is_retryable", arg |-> e,
                   res |-> <<IF is_retryable(e) THEN "true" ELSE "false", 0>>]
    /\ bout' # bout
    /\ UNCHANGED bcfg
    /\ UNCHANGED notBuild

(***************************************************************************)
(* src/fetcher/transaction_fetcher.rs                                      *)
(*                                                                         *)
(* The RPC client behind the fetcher is any RpcClientTrait.  It is modelled *)
(* as a node that keeps the signatures of the address in one order,        *)
(* 1..NumSigs, and answers get_signatures_for_address(address, before,     *)
(* limit) with at most limit signatures that follow `before` in that       *)
(* order, or with an error; get_transaction(sig) succeeds or fails.        *)
(***************************************************************************)
\* the checkpoints a fetcher can hold: None (0) or a signature
Checkpoints == 0..NumSigs

\* the pages get_signatures_for_address(address, before, limit) can answer
Pages(before, limit) ==
    {[i \in 1..n |-> before + i] :
        n \in {k \in 0..limit : before + k <= NumSigs}}

\* the signatures of a page
SigsOf(page) == {page[i] : i \in 1..Len(page)}

\* (mutant) the checkpoint is the first signature of the page
first_cloned(sigs) == sigs[1]

\* fetch_next_batch: sigs.last().cloned(), of a non-empty page
last_cloned(sigs) == sigs[Len(sigs)]

\* the fetcher before its first call
NoFetch == [queried |-> 0, res |-> "none", page |-> <<>>, batch |-> {}]

FetchInit ==
    /\ fbatch_size \in 1..BatchSize
    /\ fcheckpoint \in Checkpoints
    /\ finitial = fcheckpoint
    /\ flast = NoFetch
    /\ flastpage = <<>>
    /\ flisted = {}
    /\ fdelivered = {}

\* fetch_next_batch, get_signatures_for_address returned Err
FetchRpcError ==
    /\ flast' = [queried |-> fcheckpoint, res |-> "Err(Rpc)",
                 page |-> <<>>, batch |-> {}]
    /\ UNCHANGED <<fbatch_size, fcheckpoint, finitial, flastpage, flisted,
                   fdelivered>>
    /\ UNCHANGED notFetch

\* fetch_next_batch, get_signatures_for_address returned Ok(sigs); the
\* signatures in `fetched` are those get_transaction returned Ok for
FetchPage ==
    /\ \E sigs \in Pages(fcheckpoint, fbatch_size) :
       \E fetched \in SUBSET SigsOf(sigs) :
          /\ flast' = [queried |-> fcheckpoint, res |-> "Ok",
                       page |-> sigs, batch |-> fetched]
          /\ IF sigs = <<>>
             THEN UNCHANGED <<fcheckpoint, flastpage, flisted, fdelivered>>
             ELSE /\ fcheckpoint' = last_cloned(sigs)
                  /\ flastpage' = sigs
                  /\ flisted' = flisted \cup SigsOf(sigs)
                  /\ fdelivered' = fdelivered \cup fetched
    /\ UNCHANGED <<fbatch_size, finitial>>
    /\ UNCHANGED notFetch

(***************************************************************************)
(* The specifications.                                                     *)
(***************************************************************************)
\* the dispatcher, beside a client of rpc/client.rs that is not used
\* the limiter of rate_limit.rs as the specifications that do not use it
\* have it
LimIdle ==
    /\ LimInit
    /\ lcfg = [max_rps |-> 1, burst_size |-> 1]
    /\ lmode = "period"

\* the monitor called directly, as the specifications that do not call it
\* have it
MonIdle == MonInit /\ mwhich = "core"

\* the constructors, as the specifications that start from a built client
\* have them: RpcConfig::default of rpc/config.rs, one enabled endpoint
BuildIdle ==
    /\ BuildInit
    /\ bcfg = [endpoints |-> <<[url_ok |-> TRUE, enabled |-> TRUE]>>,
               max_concurrent_requests |-> 1,
               rate_limit |-> [max_rps |-> 1, burst_size |-> 1],
               requests_per_second |-> Rps]

\* the fetcher, as the specifications that have no fetcher have it
FetchIdle ==
    /\ FetchInit
    /\ fbatch_size = 1
    /\ fcheckpoint = 0

Init ==
    /\ DispInit
    /\ RetryInit /\ retry_attempts = MaxRetryAttempts
    /\ LimIdle
    /\ MonIdle
    /\ BuildIdle
    /\ FetchIdle

Next ==
    \/ \E c \in Callers : Step(c)
    \/ Refill
    \/ TimePasses

Spec == Init /\ [][Next]_vars

\* A task that can take a step takes one: the runtime polls it, a sleep
\* ends, a request is answered or times out.
FairSpec == Spec /\ \A c \in Callers : WF_vars(Step(c))

RetryNext ==
    \/ WStart
    \/ WLoop
    \/ WPermit
    \/ WCallOk
    \/ WCallErr
    \/ WSleep
    \/ WReturn
    \/ WRefill

\* with_retry, beside a dispatcher that is not used
InitRetry ==
    /\ RetryInit
    /\ DispInit /\ nEndpoints = 1
    /\ LimIdle
    /\ MonIdle
    /\ BuildIdle
    /\ FetchIdle

SpecRetry == InitRetry /\ [][RetryNext]_vars

\* the rate limiter of rate_limit.rs, used by several tasks
LimNext ==
    \/ \E t \in Callers : LCheck(t)
    \/ LElapse

InitLimiter ==
    /\ LimInit
    /\ DispInit /\ nEndpoints = 1
    /\ RetryInit /\ retry_attempts = MaxRetryAttempts
    /\ MonIdle
    /\ BuildIdle
    /\ FetchIdle

SpecLimiter == InitLimiter /\ [][LimNext]_vars

\* a health monitor called directly by several tasks
MonNext ==
    \/ MBegin
    \/ MInvalid
    \/ MField
    \/ MEnd
    \/ MSnapshot
    \/ MSelect
    \/ MCheckRead
    \/ MCheckCurrent
    \/ MCheckDecide
    \/ MCurrent
    \/ MSwitchLock
    \/ MSwitch
    \/ MAge

InitMonitor ==
    /\ DispInit
    /\ MonInit
    /\ RetryInit /\ retry_attempts = MaxRetryAttempts
    /\ LimIdle
    /\ BuildIdle
    /\ FetchIdle

SpecMonitor == InitMonitor /\ [][MonNext]_vars

\* the monitor of rpc/health.rs over two endpoints, called by several tasks
LockNext ==
    \/ MBegin
    \/ MInvalid
    \/ MField
    \/ MEnd
    \/ MSnapshot
    \/ MCheckRead
    \/ MCheckCurrent
    \/ MCheckDecide
    \/ MCurrent
    \/ MSwitchLock
    \/ MSwitch
    \/ MAge

InitLocks ==
    /\ InitMonitor
    /\ mwhich = "rpc"
    /\ nEndpoints = 2

\* A task that holds a guard runs on to its next await; a task that waits
\* for a tokio RwLock is served in turn (the lock queues its waiters), so a
\* guard that is free again and again is eventually given to it.
FairSpecLocks ==
    /\ InitLocks /\ [][LockNext]_vars
    /\ WF_vars(MField) /\ WF_vars(MEnd) /\ WF_vars(MSwitch)
    /\ SF_vars(MCheckCurrent) /\ SF_vars(MCheckDecide)

\* the constructors and is_retryable on drawn inputs
BuildNext ==
    \/ BuildLimiter
    \/ BuildClient
    \/ BuildDispatcher
    \/ Classify

InitBuild ==
    /\ BuildInit
    /\ DispInit /\ nEndpoints = 1
    /\ RetryInit /\ retry_attempts = MaxRetryAttempts
    /\ LimIdle
    /\ MonIdle
    /\ FetchIdle

SpecBuild == InitBuild /\ [][BuildNext]_vars

\* a fetcher called again and again
FetchNext ==
    \/ FetchRpcError
    \/ FetchPage

InitFetcher ==
    /\ FetchInit
    /\ DispInit /\ nEndpoints = 1
    /\ RetryInit /\ retry_attempts = MaxRetryAttempts
    /\ LimIdle
    /\ MonIdle
    /\ BuildIdle

SpecFetcher == InitFetcher /\ [][FetchNext]_vars

(***************************************************************************)
(* The claims.                                                             *)
(***************************************************************************)
\* caller c leaves "idle": a step of get_slot up to the call of make_request
Selects(c) == pc[c] = "idle" /\ pc'[c] # "idle"
\* caller c leaves "send": one HTTP request of the call is sent and answered
Attempts(c) == pc[c] = "send" /\ pc'[c] # "send"
\* every request sent so far was sent by the current call of c
OnlyCall(c) ==
    /\ sent[c] < SentCap
    /\ \A e \in 1..nEndpoints : attempts[e] < AttCap
    /\ SumTo(attempts, nEndpoints) = sent[c]

\* C1: a call through make_request sends at most config.max_retries HTTP
\* requests, whatever the endpoint answers.
C1_AttemptsWithinBudget == \A c \in Callers : sent[c] <= MaxRetries

\* C2: with a single endpoint whose every attempt fails, a call that has
\* entered the retry loop eventually returns to its caller.
C2_FailingCallReturns ==
    \A c \in Callers : (nEndpoints = 1 /\ pc[c] = "send") ~> (pc[c] = "done")

\* C3: for every endpoint, success_count + error_count equals the number of
\* HTTP attempts made to it (checked while the ghost counter is exact).
C3_EveryOutcomeRecorded ==
    \A e \in 1..nEndpoints :
        attempts[e] < AttCap =>
            health[e].success_count + health[e].error_count = attempts[e]

\* C4: two endpoints, 1 (A) always failing and 2 (B) always succeeding: when
\* the first call on a fresh client has returned Ok without a failure on B,
\* a failure on A has been recorded, A is unhealthy and B is healthy.
C4_Failover ==
    \A c \in Callers :
        (/\ nEndpoints = 2
         /\ pc[c] = "done" /\ result[c] = "Ok"
         /\ OnlyCall(c)
         /\ 2 \notin tried[c])
        => (/\ 1 \in tried[c]
            /\ health[1].error_count >= 1
            /\ ~health[1].is_healthy
            /\ health[2].is_healthy)

\* C5: within one call no attempt is sent to an endpoint on which an earlier
\* attempt of the same call has failed.
C5_NoRepeatAfterFailure ==
    [][\A c \in Callers : Attempts(c) => ep[c] \notin tried[c]]_vars

\* C6: a call whose latest attempt was answered HTTP 400 has returned that
\* error to its caller: it is not in a backoff sleep and sends nothing more.
C6_NonRetryableReturned ==
    \A c \in Callers :
        last[c] = "s400" => pc[c] = "done" /\ result[c] = "RequestError"

C10_OnlyHealthySelected ==
    [][\A c \in Callers :
          Selects(c) =>
            /\ (pc'[c] = "done" /\ result'[c] = "AllEndpointsFailed")
               <=> (\A e \in 1..nEndpoints : ~health[e].is_healthy)
            /\ ep'[c] # 0 => health[ep'[c]].is_healthy]_vars

\* C10 as amended: a call returns AllEndpointsFailed, without a request,
\* exactly when every endpoint is unhealthy and has 3 or more errors; such
\* an endpoint is never selected, and selection does not fail while an
\* endpoint is healthy or has fewer than 3 errors.
C10_OnlyEligibleSelected ==
    [][\A c \in Callers :
          Selects(c) =>
            /\ (pc'[c] = "done" /\ result'[c] = "AllEndpointsFailed"
                    /\ ep'[c] = 0 /\ sent'[c] = 0 /\ attempts' = attempts)
               <=> (\A e \in 1..nEndpoints :
                       ~health[e].is_healthy
                       /\ health[e].error_count >= ErrorThreshold)
            /\ ep'[c] # 0 =>
                  (/\ ep'[c] \in 1..nEndpoints
                   /\ pc'[c] = "limiter"
                   /\ (health[ep'[c]].is_healthy
                       \/ health[ep'[c]].error_count < ErrorThreshold))]_vars

C10_Witness ==
    \E c \in Callers :
        /\ pc[c] = "done" /\ result[c] = "AllEndpointsFailed"
        /\ \A e \in 1..nEndpoints :
              ~health[e].is_healthy /\ health[e].error_count >= ErrorThreshold

\* C8: in get_block and get_signature_status a retryable failure of the
\* underlying request is surfaced to the caller only when retry_attempts
\* attempts have been made.
C8_TransientRetried ==
    (/\ wop \in BlockOps
     /\ wpc = "done"
     /\ wresult \notin {"Ok", "CircuitBreakerOpen"}
     /\ is_retryable(wunder))
    => wcalls = retry_attempts

\* C9: with_retry invokes the operation at most retry_attempts times per
\* call, and with retry_attempts = 1 a failed first attempt is not followed
\* by another attempt.
C9_AtMostRetryAttempts ==
    /\ wcalls <= retry_attempts
    /\ (retry_attempts = 1 /\ wcalls = 1) => wpc \notin {"permit", "call"}

C9_Witness ==
    /\ retry_attempts = 1
    /\ wpc = "done"
    /\ wcalls = 1
    /\ wlast_error # "none"
    /\ wresult = "RetryFailed"

\* the outcomes the registry has recorded for endpoint e
RecordedOn(e) == health[e].success_count + health[e].error_count

\* C11 as stated: an endpoint with recorded attempts is reported healthy
\* only while its last success is recent; one whose last success is over a
\* minute old (so older than W = 30 s), or that never succeeded, is
\* reported unhealthy.
C11_HealthyOnlyWhileRecent ==
    \A e \in 1..nEndpoints :
        (RecordedOn(e) > 0 /\ health[e].is_healthy)
            => health[e].last_success = "fresh"

\* C11 as amended: the healthy flag of an endpoint is true while nothing is
\* recorded for it, becomes true when a success is recorded, becomes false
\* when a failure is recorded (however recent the last success), and is
\* changed by nothing else, the passing of time included.
C11_FlagIsLastOutcome ==
    [][\A e \in 1..nEndpoints :
          /\ RecordedOn(e) = 0 => health[e].is_healthy
          /\ health'[e].success_count > health[e].success_count
                => health'[e].is_healthy
          /\ health'[e].error_count > health[e].error_count
                => ~health'[e].is_healthy
          /\ (/\ health'[e].success_count = health[e].success_count
              /\ health'[e].error_count = health[e].error_count)
                => health'[e].is_healthy = health[e].is_healthy]_vars

C11_Witness ==
    \E e \in 1..nEndpoints :
        /\ health[e].success_count >= 1
        /\ health[e].error_count >= 1
        /\ health[e].last_success = "fresh"
        /\ ~health[e].is_healthy

\* C13: the endpoint a call is given has the maximum health score among
\* the candidates, and among candidates of equal maximum score (the
\* registry keeps no weights: all are equal) it is the one of smallest index.
C13_MaxScoreSmallestIndex ==
    [][\A c \in Callers :
          (Selects(c) /\ ep'[c] # 0) =>
             LET cand == {e \in 1..nEndpoints : should_retry(health[e])}
             IN  /\ ep'[c] \in cand
                 /\ \A f \in cand :
                       LET o == partial_cmp(health_score(health[f]),
                                            health_score(health[ep'[c]]))
                       IN  o <= 0 /\ (o = 0 => ep'[c] <= f)]_vars

\* C14: before the first request of a client the health snapshot has one
\* entry per configured endpoint, each with success and error counts 0 and
\* healthy = true.
C14_FreshSnapshot ==
    (\A e \in 1..nEndpoints : attempts[e] = 0)
    => /\ DOMAIN health = 1..nEndpoints
       /\ \A e \in 1..nEndpoints :
             /\ health[e].success_count = 0
             /\ health[e].error_count = 0
             /\ health[e].is_healthy

C14_Witness ==
    /\ nEndpoints = NumEndpoints
    /\ \A c \in Callers : pc[c] = "idle" /\ sent[c] = 0
    /\ \A e \in 1..nEndpoints : attempts[e] = 0 /\ health[e].is_healthy

\* C19: a call for endpoint e is denied a permit only if a permit was
\* consumed by a request to e itself: requests to another endpoint do not
\* use up e's permits.
C19_PermitsPerEndpoint ==
    \A c \in Callers :
        (pc[c] = "done" /\ result[c] = "Timeout")
        => \/ attempts[ep[c]] > 0
           \/ \E d \in Callers \ {c} :
                 ep[d] = ep[c] /\ pc[d] \in {"send", "backoff"}

\* ceil(1000 / n)
CeilDiv1000(n) == (1000 + n - 1) \div n

\* C15: the bucket holds between 0 and burst_size cells at all times; a
\* permit is granted only from a bucket that holds a cell, which it takes,
\* and the passing of time never fills the bucket beyond burst_size.
C15_TokensWithinBurst ==
    [][/\ LTokens \in 0..lcfg.burst_size
       /\ LTokens' \in 0..lcfg.burst_size
       /\ ldebt' > ldebt => (LTokens >= 1 /\ LTokens' = LTokens - 1)
       /\ ldebt' < ldebt => LTokens' >= LTokens]_vars

C15_Witness ==
    /\ lcfg.burst_size = 2
    /\ LTokens = 0
    /\ \E t \in Callers : lpc[t] = "waiting" /\ lwake[t] > 0

\* C16: while fewer than burst_size permits were granted since the bucket
\* was full (no time passing), a call of wait_for_permit is not suspended;
\* after burst_size such grants no permit is granted until time has
\* passed, and the call that asks for one is put to sleep.
C16_BurstThenWait ==
    [][/\ lrun \in 0..(lcfg.burst_size - 1)
            => \A t \in Callers : lpc[t] = "idle" => lpc'[t] = "idle"
       /\ lrun = lcfg.burst_size
            => /\ ldebt' <= ldebt
               /\ \A t \in Callers :
                     (lpc[t] = "idle" /\ llast'[t] # llast[t])
                        => lpc'[t] = "waiting" /\ lsleep'[t] > 0]_vars

C16_Witness ==
    /\ lcfg.burst_size = 2
    /\ lrun = lcfg.burst_size
    /\ \E t \in Callers : lpc[t] = "waiting" /\ lsleep[t] > 0
    /\ \E t \in Callers : lpc[t] = "idle" /\ llast[t] = "granted"

C18_GrantedInArrivalOrder ==
    [][\A t \in Callers :
          (lpc[t] = "waiting" /\ lpc'[t] = "idle") => Head(lwaitq) = t]_vars

\* C12: once a record_success on endpoint e has completed, e is healthy and
\* passes the filter of the selection, whatever its error count; a
\* selection made then returns an endpoint.
C12_SuccessReenables ==
    (mwhich = "core" /\ mlock = "free" /\ mlast[1] = "record_success")
    => /\ health[mlast[2]].is_healthy
       /\ should_retry(health[mlast[2]])
       /\ get_healthiest_endpoint(health, nEndpoints) # 0

C12_Witness ==
    /\ mwhich = "core" /\ mlock = "free" /\ mlast[1] = "record_success"
    /\ health[mlast[2]].error_count >= ErrorThreshold
    /\ health[mlast[2]].is_healthy
    /\ health[mlast[2]].success_count = 1

\* C20: what get_health_stats / get_stats returns is the monitor's state
\* as the latest completed record_* call left it (or the initial state),
\* never a state in the middle of a call; and what a call leaves when it
\* returns is the state before it with the whole call applied to its
\* endpoint.
C20_SnapshotNeverTorn ==
    [][/\ (msnap' # msnap /\ msnap' # NoSnapshot) => msnap' = mstable
       /\ (mlock = "write" /\ mlock' = "free")
             => MonState = [mstable EXCEPT
                               ![mop.url] = WholeRecord(@, mop)]]_vars

C20_Witness ==
    /\ msnap # NoSnapshot
    /\ msnap = mstable
    /\ \E e \in 1..nEndpoints : msnap[e] # MonInitial[e]

\* the counters of rpc/health.rs that only grow
StatCounters(st) ==
    <<st.successful_requests, st.failed_requests, st.total_bytes_transferred>>

\* C21: whenever no record_* call of rpc/health.rs is under way, every
\* endpoint's successful_requests and failed_requests are the numbers of
\* record_success and record_failure calls completed for it and
\* total_bytes_transferred is the sum of the bytes its successes reported;
\* and no step makes one of the three counters smaller.
C21_CountersMatchCalls ==
    [][mwhich = "rpc" =>
         /\ mlock' # "write" =>
               \A e \in 1..nEndpoints :
                  StatCounters(sstats'[e]) =
                     <<mcalls'[e].succ, mcalls'[e].fail, mcalls'[e].bytes>>
         /\ \A e \in 1..nEndpoints : \A i \in 1..3 :
               StatCounters(sstats'[e])[i] >= StatCounters(sstats[e])[i]]_vars

C21_Witness ==
    /\ mwhich = "rpc" /\ mlock = "free"
    /\ \E e \in 1..nEndpoints :
          /\ mcalls[e].succ = 2 /\ mcalls[e].fail = 1
          /\ StatCounters(sstats[e]) = <<2, 1, mcalls[e].bytes>>
          /\ mcalls[e].bytes > 0

\* C22: whenever no record_* call is under way, avg_response_time_ms of an
\* endpoint with at least one success is the sum of the response times of
\* its record_success calls divided by their number.
C22_AverageOverSuccesses ==
    (mwhich = "rpc" /\ mlock # "write")
    => \A e \in 1..nEndpoints :
          mcalls[e].succ > 0
          => sstats[e].avg_response_time_ms[1] * mcalls[e].succ
                = mcalls[e].rtsum * sstats[e].avg_response_time_ms[2]

\* C23: a record_success / record_failure of rpc/health.rs called with an
\* index past the last endpoint returns InvalidEndpoint(index) and changes
\* no statistics; called with an index in range it returns Ok.
C23_InvalidIndexRejected ==
    [][(mwhich = "rpc" /\ mlast' # NoCall) =>
          IF mlast'[2] > nEndpoints
          THEN /\ mlast'[3] = <<"InvalidEndpoint", mlast'[2] - 1>>
               /\ sstats' = sstats
          ELSE mlast'[3] = <<"Ok", 0>>]_vars

C23_Witness ==
    /\ mwhich = "rpc"
    /\ mlast[3] = <<"InvalidEndpoint", nEndpoints>>
    /\ MonRecorded >= 1
    /\ sstats = mstable

\* C24: check_health returns healthy exactly when some endpoint has a
\* success recorded less than 30 s ago, be it the current endpoint or not.
C24_HealthyIffRecentSuccess ==
    [][(mchk.pc = "read" /\ mchk'.pc = "idle") =>
          (mhealthy' = "healthy"
             <=> \E e \in 1..nEndpoints : RecentSuccess(sstats[e]))]_vars

C24_Witness ==
    /\ mhealthy = "healthy"
    /\ \E e \in 1..nEndpoints :
          /\ RecentSuccess(sstats[e])
          /\ sstats[e].failed_requests >= 1
          /\ \A d \in 1..nEndpoints : d # e => ~RecentSuccess(sstats[d])

\* C25: a constructor given a zero rate or a zero burst returns the error
\* InvalidConfig: RateLimiter::new when max_rps = 0 or burst_size = 0, and
\* SolanaRpcClient::new of rpc/mod.rs when requests_per_second = 0 returns
\* an error; neither panics.
C25_ZeroRateIsAnError ==
    /\ (/\ bout.fn = "RateLimiter::new"
        /\ (bcfg.rate_limit.max_rps = 0 \/ bcfg.rate_limit.burst_size = 0))
       => bout.res = <<"InvalidConfig", 0>>
    /\ (bout.fn = "mod::SolanaRpcClient::new" /\ bcfg.requests_per_second = 0)
       => bout.res[1] \notin {"Ok", "panic"}

C27_InvalidConfigRejected ==
    (/\ bout.fn = "client::SolanaRpcClient::new"
     /\ \/ bcfg.max_concurrent_requests = 0
        \/ \E i \in 1..Len(bcfg.endpoints) : ~bcfg.endpoints[i].url_ok)
    => bout.res[1] # "Ok"

\* C28: is_retryable answers true for RequestFailed, RateLimitExceeded,
\* Timeout and ConnectionError and false for the eight other variants of
\* RpcError.
C28_RetryableVariants ==
    /\ RpcErrors =
          {"RequestFailed", "RateLimitExceeded", "Timeout", "ConnectionError"}
          \cup {"InvalidConfig", "NoEnabledEndpoints", "InvalidEndpoint",
                "HealthCheckFailed", "CircuitBreakerOpen",
                "RetryLimitExceeded", "Internal", "AllEndpointsFailed"}
    /\ bout.fn = "is_retryable"
       => (bout.res[1] = "true"
             <=> bout.arg \in {"RequestFailed", "RateLimitExceeded",
                               "Timeout", "ConnectionError"})

C28_Witness ==
    /\ bout.fn = "is_retryable"
    /\ bout.arg = "Internal"
    /\ bout.res[1] = "false"

\* C29: two requests in flight at the same time through one client carry
\* different JSON-RPC ids.
C29_DistinctIdsInFlight ==
    \A c1 \in Callers : \A c2 \in Callers :
       (c1 # c2 /\ InFlight(c1) /\ InFlight(c2))
       => RequestId(c1) # RequestId(c2)

\* C30: the HTTP requests the calls under way have sent, retries included,
\* are at most as many as the permits the limiter has granted them.
C30_PermitPerRequest ==
    SumTo([c \in Callers |-> sent[c]], Cardinality(Callers))
       <= SumTo([c \in Callers |-> PermitsOf(c)], Cardinality(Callers))

\* C31: with_retry returns the retry-exhausted error without having slept
\* after the failed attempt that used up the budget.
C31_NoSleepAfterLastAttempt ==
    (wpc = "done" /\ wresult = "RetryFailed") => ~wslept

\* C32: the backoff with_retry sleeps after a failed attempt is never
\* longer than max_delay + base_delay.
C32_BackoffCapped ==
    wpc = "sleep" => wbackoff <= max_delay_ms + retry_delay_ms

\* C34: no endpoint is excluded forever: while calls keep arriving (some
\* caller is again and again about to start a call), an endpoint that is not
\* eligible (unhealthy with at least ErrorThreshold errors) is eventually
\* selected again by some call
C34_EligibleAgain ==
    ([]<>(\E c \in Callers : pc[c] = "idle"))
    => \A e \in 1..NumEndpoints :
          (e <= nEndpoints /\ ~should_retry(health[e]))
          ~> (\E c \in Callers : ep[c] = e /\ pc[c] = "limiter")

\* C35: a call of make_request that returns an error to its caller has
\* not incremented the success_count of its endpoint.
C35_SuccessOnlyForOk ==
    [][\A c \in Callers :
          (pc[c] = "send" /\ pc'[c] = "done" /\ result'[c] # "Ok")
          => health'[ep[c]].success_count = health[ep[c]].success_count]_vars


\* C33: every fetch_next_batch queries with the checkpoint the previous call
\* left; a non-empty page moves the checkpoint to the page's last signature,
\* an empty page or a failed signature query leaves it where it was; so the
\* checkpoint is the last signature of the most recent non-empty page, or
\* the initial checkpoint if there was none
C33_CheckpointFollowsPages ==
    [][/\ flast'.queried = fcheckpoint
       /\ fcheckpoint' = IF flast'.res = "Ok" /\ flast'.page # <<>>
                         THEN flast'.page[Len(flast'.page)]
                         ELSE fcheckpoint
       /\ fcheckpoint' = IF flastpage' = <<>>
                         THEN finitial'
                         ELSE flastpage'[Len(flastpage')]]_vars

\* a second page of two signatures arrived after a first one, then an
\* empty page
C33_Witness ==
    /\ flast.res = "Ok" /\ flast.page = <<>>
    /\ Len(flastpage) = 2
    /\ flast.queried = flastpage[2]
    /\ flastpage[1] > finitial + 1
    /\ fcheckpoint = flastpage[2]

\* C37: every signature a page has listed was delivered as a transaction
\* in a batch, or the checkpoint has not advanced past it
C37_NoSignatureLost ==
    \A sig \in flisted : sig \in fdelivered \/ fcheckpoint < sig

\* C36: when SolanaRpcClient::new of rpc/client.rs has returned Ok, the
\* endpoint current_endpoint() reports is enabled and is the endpoint the
\* underlying RpcClient was built on
C36_ReportedIsEnabledAndUsed ==
    (bout.fn = "client::SolanaRpcClient::new" /\ bout.res[1] = "Ok")
    => LET reported == client_current_endpoint(bcfg, mcur)
       IN  /\ reported[1] = "Ok"
           /\ bcfg.endpoints[reported[2]].enabled
           /\ reported[2] = bout.res[2]

\* C38: no call on the monitor of rpc/health.rs is stuck on the two locks:
\* a record_* call that holds the guard over the statistics, a
\* switch_endpoint that holds the guard over current_endpoint and a
\* check_health that has started all come to their return, whatever the
\* other tasks do meanwhile
C38_EveryCallReturns ==
    /\ (mlock = "write") ~> (mlock = "free")
    /\ (mclock = "write") ~> (mclock = "free")
    /\ (mchk.pc # "idle") ~> (mchk.pc = "idle")

\* check_health holds the read guard over the statistics and is about to
\* write current_endpoint while switch_endpoint holds the guard over it
C38_Witness ==
    /\ mlock = "read"
    /\ mchk.pc = "read"
    /\ mclock = "write"
    /\ ~RecentSuccess(sstats[mchk.cur + 1])
    /\ FirstRecent(sstats, nEndpoints) # -1

\* C39: every step of a record_success / record_failure call of
\* rpc/health.rs on endpoint i leaves the current index and the statistics
\* of the other endpoints as they were, and a step of record_failure leaves
\* avg_response_time_ms, total_bytes_transferred and last_success of i as
\* they were; when the call returns, the same holds of the call as a whole
C39_OnlyEndpointTouched ==
    [][(mwhich = "rpc" /\ mlock = "write" /\ mop' # mop) =>
          LET i == mop.url
              Untouched(before, after) ==
                 /\ after.avg_response_time_ms = before.avg_response_time_ms
                 /\ after.total_bytes_transferred =
                       before.total_bytes_transferred
                 /\ after.last_success = before.last_success
          IN  /\ mcur' = mcur
              /\ \A e \in 1..nEndpoints : e # i => sstats'[e] = sstats[e]
              /\ mop.kind = "stats_record_failure"
                    => Untouched(sstats[i], sstats'[i])
              /\ mlock' = "free" =>
                    /\ \A e \in 1..nEndpoints :
                          e # i => sstats'[e] = mstable[e]
                    /\ mop.kind = "stats_record_failure"
                          => Untouched(mstable[i], sstats'[i])]_vars

\* record_failure has returned for an endpoint with a success on record,
\* while another endpoint has statistics of its own
C39_Witness ==
    /\ mwhich = "rpc"
    /\ mlast[1] = "stats_record_failure" /\ mlast[3][1] = "Ok"
    /\ sstats[mlast[2]].last_success = "fresh"
    /\ sstats[mlast[2]].total_bytes_transferred > 0
    /\ \E e \in 1..nEndpoints :
          e # mlast[2] /\ sstats[e].successful_requests > 0

=========================================================================
